---- MODULE Spec2Model ----
(***************************************************************************)
(* The blog's static build: a content store of Markdown posts, the page    *)
(* queries of the templates, and the templates (blog index, tag page,      *)
(* tags index, post page) that turn the query results into markup.         *)
(*                                                                         *)
(* Markup is modelled as records of the dynamic parts of the JSX (link     *)
(* targets, text children, keys); a JSX child that evaluates to null is    *)
(* left out of the children, as React leaves it out of the output.  A       *)
(* frontmatter key that a post does not set is a key the frontmatter       *)
(* record does not have (GraphQL hands null to the template).              *)
(* Tag names are sequences of characters, other strings are strings.       *)
(* The text between date and reading time is a sequence of code units.    *)
(* The wall clock is the current year, which one footer reads when it     *)
(* renders; a page that has rendered may render again from the same props. *)
(***************************************************************************)
EXTENDS Integers, Sequences, FiniteSets, TLC

VARIABLES store, queue, site, clock
vars == <<store, queue, site, clock>>

-----------------------------------------------------------------------------
(* Bounds *)

MaxPosts == 3
MaxMonth == 3
MaxTagsPerPost == 2

\* the new years the wall clock passes after the build has started
MaxTicks == 1

\* The tag names posts draw from; two of them differ only in letter case.
TagNames == {<<"x">>, <<"X">>, <<"y">>}

-----------------------------------------------------------------------------
(* JavaScript helpers *)

EmptyObject == [k \in {} |-> ""]

\* obj[key] is neither null/undefined nor the empty string.
Truthy(obj, key) == key \in DOMAIN obj /\ obj[key] # ""

\* obj[key] || other
OrElse(obj, key, other) == IF Truthy(obj, key) THEN obj[key] ELSE other

\* The children of a JSX element: null children render nothing.
Child(obj, key) == IF key \in DOMAIN obj THEN <<obj[key]>> ELSE <<>>

Range(s) == {s[i] : i \in 1..Len(s)}

Min(a, b) == IF a <= b THEN a ELSE b

\* UTF-16 code units of the characters tag names are made of.
CharCode == [c \in {" ", "-", "X", "Y", "x", "y"} |->
               CASE c = " " -> 32 [] c = "-" -> 45 [] c = "X" -> 88
                 [] c = "Y" -> 89 [] c = "x" -> 120 [] c = "y" -> 121]

\* a < b as JavaScript compares strings: by code unit, a prefix first.
RECURSIVE StrLess(_, _)
StrLess(a, b) ==
    IF b = <<>> THEN FALSE
    ELSE IF a = <<>> THEN TRUE
    ELSE IF CharCode[Head(a)] # CharCode[Head(b)]
         THEN CharCode[Head(a)] < CharCode[Head(b)]
         ELSE StrLess(Tail(a), Tail(b))

\* The characters of a tag name joined into one string.
RECURSIVE Join(_)
Join(chars) == IF chars = <<>> THEN "" ELSE Head(chars) \o Join(Tail(chars))

-----------------------------------------------------------------------------
(* lodash/kebabCase: split into words, lower-case, join with "-" *)

IsUpper(c) == c \in {"X", "Y"}
IsLower(c) == c \in {"x", "y"}
IsLetter(c) == IsUpper(c) \/ IsLower(c)

ToLower(c) == CASE c = "X" -> "x" [] c = "Y" -> "y" [] OTHER -> c

\* A word starts at letter i: after a separator, at an upper-case letter that
\* follows a lower-case one, or at the last letter of an upper-case run that
\* a lower-case letter follows.
WordStart(s, i) ==
    /\ IsLetter(s[i])
    /\ \/ i = 1
       \/ ~IsLetter(s[i - 1])
       \/ IsUpper(s[i]) /\ IsLower(s[i - 1])
       \/ IsUpper(s[i]) /\ IsUpper(s[i - 1]) /\ i < Len(s) /\ IsLower(s[i + 1])

RECURSIVE KebabFrom(_, _, _)
KebabFrom(s, i, out) ==
    IF i > Len(s) THEN out
    ELSE IF ~IsLetter(s[i]) THEN KebabFrom(s, i + 1, out)
    ELSE IF WordStart(s, i) /\ out # <<>>
         THEN KebabFrom(s, i + 1, out \o <<"-", ToLower(s[i])>>)
         ELSE KebabFrom(s, i + 1, Append(out, ToLower(s[i])))

kebabCase(s) == KebabFrom(s, 1, <<>>)

-----------------------------------------------------------------------------
(* The content store *)

\* file i of content/blog: its slug comes from its path
SlugOf(i) == CASE i = 1 -> "/a/" [] i = 2 -> "/b/" [] i = 3 -> "/c/"
               [] i = 4 -> "/d/" [] OTHER -> "/e/"

TitleOf(i) == CASE i = 1 -> "A" [] i = 2 -> "B" [] i = 3 -> "C"
                [] i = 4 -> "D" [] OTHER -> "E"

Dates == {[year |-> 2019, month |-> m, day |-> 1] : m \in 1..MaxMonth}

\* duplicate-free tag lists of at most n of the names
RECURSIVE TagLists(_, _)
TagLists(names, n) ==
    IF n = 0 THEN {<<>>}
    ELSE LET shorter == TagLists(names, n - 1)
         IN shorter \cup {Append(l, t) : <<l, t>> \in
                             {<<l, t>> \in shorter \X names : t \notin Range(l)}}

\* the values a post may give a frontmatter key, or no value at all
Optional(key, values) == {EmptyObject} \cup {(key :> v) : v \in values}

Node(i, fm) ==
    [fields |-> [slug |-> SlugOf(i)],
     excerpt |-> "excerpt of " \o SlugOf(i),
     html |-> "<p>body of " \o SlugOf(i) \o "</p>",
     timeToRead |-> i,
     frontmatter |-> fm]

Frontmatters(titles, descriptions, dates, tagLists) ==
    {[date |-> d] @@ t @@ ds @@ tg :
        t \in titles, ds \in descriptions, d \in dates, tg \in tagLists}

\* The frontmatters a post may have under a profile of the content store:
\* "items" varies the texts of the post summary, "tags" the tag lists,
\* "case" the tag lists over two names that differ only in letter case,
\* "nav" the publish dates, "dated" the publish dates and whether a post is
\* tagged, "optional" which of the optional keys a post sets.
MonthOf(i) == ((i - 1) % MaxMonth) + 1

FrontmattersOf(profile, i) ==
    CASE profile = "items" ->
           Frontmatters(Optional("title", {"", TitleOf(i)}),
                        {EmptyObject},
                        {[year |-> 2019, month |-> MonthOf(i), day |-> 1]},
                        {("tags" :> <<<<"x">>>>)})
             \cup
           Frontmatters({("title" :> TitleOf(i))},
                        Optional("description", {"", "about " \o TitleOf(i)}),
                        {[year |-> 2019, month |-> MonthOf(i), day |-> 1]},
                        {("tags" :> <<<<"x">>>>)})
      [] profile = "tags" ->
           Frontmatters({("title" :> TitleOf(i))},
                        {EmptyObject},
                        {[year |-> 2019, month |-> MonthOf(i), day |-> 1]},
                        Optional("tags", TagLists({<<"x">>, <<"y">>},
                                                  MaxTagsPerPost)))
      [] profile = "case" ->
           Frontmatters({("title" :> TitleOf(i))},
                        {EmptyObject},
                        {[year |-> 2019, month |-> MonthOf(i), day |-> 1]},
                        Optional("tags", TagLists({<<"x">>, <<"X">>},
                                                  MaxTagsPerPost)))
      [] profile = "optional" ->
           Frontmatters(Optional("title", {TitleOf(i)}),
                        Optional("description", {"about " \o TitleOf(i)}),
                        {[year |-> 2019, month |-> MonthOf(i), day |-> 1]},
                        Optional("tags", {<<<<"x">>>>}))
      [] profile = "dated" ->
           Frontmatters({("title" :> TitleOf(i))},
                        {EmptyObject},
                        Dates,
                        Optional("tags", {<<<<"x">>>>}))
      [] OTHER ->
           Frontmatters({("title" :> TitleOf(i))},
                        {EmptyObject},
                        Dates,
                        {("tags" :> <<<<"x">>>>)})
             \cup
           Frontmatters({EmptyObject},
                        {EmptyObject},
                        {[year |-> 2019, month |-> MonthOf(i), day |-> 1]},
                        {("tags" :> <<<<"x">>>>)})

\* the content stores of exactly n posts
RECURSIVE StoresOfLen(_, _)
StoresOfLen(profile, n) ==
    IF n = 0 THEN {<<>>}
    ELSE {Append(s, Node(n, fm)) :
             s \in StoresOfLen(profile, n - 1), fm \in FrontmattersOf(profile, n)}

Stores(profile) == UNION {StoresOfLen(profile, n) : n \in 1..MaxPosts}

-----------------------------------------------------------------------------
(* The query layer *)

MonthName == <<"January", "February", "March", "April", "May", "June", "July",
               "August", "September", "October", "November", "December">>

DigitStr == <<"0", "1", "2", "3", "4", "5", "6", "7", "8", "9">>

Digit(n) == DigitStr[(n % 10) + 1]

\* date(formatString: "MMMM DD, YYYY")
formatDate(d) ==
    MonthName[d.month] \o " " \o Digit(d.day \div 10) \o Digit(d.day) \o ", "
      \o Digit(d.year \div 1000) \o Digit(d.year \div 100)
      \o Digit(d.year \div 10) \o Digit(d.year)

\* a node as a page query returns it: the date formatted
ResultNode(n) == [n EXCEPT !.frontmatter.date = formatDate(@)]

Edges(nodes) == [i \in 1..Len(nodes) |-> [node |-> ResultNode(nodes[i])]]

DateKey(d) == d.year * 10000 + d.month * 100 + d.day

\* the nodes of the given dates, newest date first; the nodes of one date
\* stay in the order they have in nodes
RECURSIVE NewestFirst(_, _)
NewestFirst(nodes, keys) ==
    IF keys = {} THEN <<>>
    ELSE LET newest == CHOOSE k \in keys : \A other \in keys : other <= k
         IN SelectSeq(nodes, LAMBDA n : DateKey(n.frontmatter.date) = newest)
              \o NewestFirst(nodes, keys \ {newest})

\* sort: { fields: [frontmatter___date], order: DESC }
SortByDateDesc(nodes) ==
    NewestFirst(nodes, {DateKey(nodes[i].frontmatter.date) : i \in 1..Len(nodes)})

\* limit: n
Limit(nodes, n) == SubSeq(nodes, 1, Min(n, Len(nodes)))

TagsOf(n) == IF "tags" \in DOMAIN n.frontmatter THEN n.frontmatter.tags ELSE <<>>

\* the filter matching tags without regard to letter case
HasTagIgnoreCase(n, tag) ==
    \E i \in 1..Len(TagsOf(n)) :
        [k \in 1..Len(TagsOf(n)[i]) |-> ToLower(TagsOf(n)[i][k])]
           = [k \in 1..Len(tag) |-> ToLower(tag[k])]

\* the filter also matching the posts without a tags field
HasTagOrNone(n, tag) ==
    \/ "tags" \notin DOMAIN n.frontmatter
    \/ \E i \in 1..Len(TagsOf(n)) : TagsOf(n)[i] = tag

\* filter: { frontmatter: { tags: { in: [$tag] } } }
HasTag(n, tag) == \E i \in 1..Len(TagsOf(n)) : TagsOf(n)[i] = tag

FilterByTag(nodes, tag) == SelectSeq(nodes, LAMBDA n : HasTag(n, tag))

QueryLimit == 2000

\* the blog index query without its sort argument
BlogIndexQueryUnsorted(nodes) ==
    [allMarkdownRemark |-> [edges |-> Edges(nodes)]]

\* the blog index query returning the tagged posts only
BlogIndexQueryTagged(nodes) ==
    [allMarkdownRemark |->
        [edges |-> Edges(SortByDateDesc(
                      SelectSeq(nodes, LAMBDA n : "tags" \in DOMAIN n.frontmatter)))]]

\* the page query of the blog index
BlogIndexQuery(nodes) ==
    [allMarkdownRemark |-> [edges |-> Edges(SortByDateDesc(nodes))]]

\* the tag page query counting the posts before the filter
TagsQueryCountAll(nodes, tag) ==
    LET matched == SortByDateDesc(FilterByTag(nodes, tag))
    IN [allMarkdownRemark |-> [totalCount |-> Len(nodes),
                               edges |-> Edges(Limit(matched, QueryLimit))]]

\* the tag page query without its sort argument
TagsQueryUnsorted(nodes, tag) ==
    LET matched == FilterByTag(nodes, tag)
    IN [allMarkdownRemark |-> [totalCount |-> Len(matched),
                               edges |-> Edges(Limit(matched, QueryLimit))]]

\* the page query of a tag page: totalCount counts every match, edges are
\* cut at the limit
TagsQuery(nodes, tag) ==
    LET matched == SortByDateDesc(FilterByTag(nodes, tag))
    IN [allMarkdownRemark |-> [totalCount |-> Len(matched),
                               edges |-> Edges(Limit(matched, QueryLimit))]]

\* the field values of group(field: frontmatter___tags), in sorted order
RECURSIVE SortedTags(_)
SortedTags(S) ==
    IF S = {} THEN <<>>
    ELSE LET first == CHOOSE t \in S : \A u \in S \ {t} : StrLess(t, u)
         IN <<first>> \o SortedTags(S \ {first})

\* the grouping taking only the first tag of each node
RECURSIVE GroupNodesFirstTag(_, _)
GroupNodesFirstTag(nodes, acc) ==
    IF nodes = <<>> THEN acc
    ELSE LET n == Head(nodes)
             first == IF TagsOf(n) = <<>> THEN {} ELSE {TagsOf(n)[1]}
             joined == [t \in DOMAIN acc \cup first |->
                          IF t \in first
                          THEN Append(IF t \in DOMAIN acc THEN acc[t] ELSE <<>>, n)
                          ELSE acc[t]]
         IN GroupNodesFirstTag(Tail(nodes), joined)

\* the nodes of each group: a node joins the group of each of its tags
RECURSIVE GroupNodes(_, _)
GroupNodes(nodes, acc) ==
    IF nodes = <<>> THEN acc
    ELSE LET n == Head(nodes)
             joined == [t \in DOMAIN acc \cup Range(TagsOf(n)) |->
                          IF t \in Range(TagsOf(n))
                          THEN Append(IF t \in DOMAIN acc THEN acc[t] ELSE <<>>, n)
                          ELSE acc[t]]
         IN GroupNodes(Tail(nodes), joined)

\* the page query of the tags index
TagsPageQuery(nodes) ==
    LET groups == GroupNodes(Limit(nodes, QueryLimit), [t \in {} |-> <<>>])
        values == SortedTags(DOMAIN groups)
    IN [allMarkdownRemark |->
          [group |-> [i \in 1..Len(values) |->
                        [fieldValue |-> values[i],
                         totalCount |-> Len(groups[values[i]])]]]]

\* the page query of a post page
BlogPostBySlug(nodes, slug) ==
    LET n == CHOOSE n \in Range(nodes) : n.fields.slug = slug
    IN [markdownRemark |-> ResultNode(n)]

-----------------------------------------------------------------------------
(* The templates *)

\* the text between the date and the reading time, as UTF-16 code units:
\* a bullet between two spaces
Bullet == <<32, 8226, 32>>

\* the same text where the source file holds the UTF-8 bytes of the bullet
\* as three characters of their own (a-circumflex, euro sign, cent sign)
BulletGarbled == <<32, 226, 8364, 162, 32>>

\* PostListItem falling back to the slug only when the title is null
PostListItemNullish(node) ==
    LET title == IF "title" \in DOMAIN node.frontmatter
                 THEN node.frontmatter.title ELSE node.fields.slug
    IN [key |-> node.fields.slug,
        link |-> [to |-> node.fields.slug, rel |-> "bookmark",
                  children |-> <<title>>],
        small |-> [date |-> node.frontmatter.date, separator |-> BulletGarbled,
                   minutes |-> node.timeToRead],
        html |-> OrElse(node.frontmatter, "description", node.excerpt)]

\* PostListItem always rendering the excerpt
PostListItemExcerpt(node) ==
    LET title == OrElse(node.frontmatter, "title", node.fields.slug)
    IN [key |-> node.fields.slug,
        link |-> [to |-> node.fields.slug, rel |-> "bookmark",
                  children |-> <<title>>],
        small |-> [date |-> node.frontmatter.date, separator |-> BulletGarbled,
                   minutes |-> node.timeToRead],
        html |-> node.excerpt]

\* PostListItem keyed by the date of the post
PostListItemKeyedByDate(node) ==
    LET title == OrElse(node.frontmatter, "title", node.fields.slug)
    IN [key |-> node.frontmatter.date,
        link |-> [to |-> node.fields.slug, rel |-> "bookmark",
                  children |-> <<title>>],
        small |-> [date |-> node.frontmatter.date, separator |-> BulletGarbled,
                   minutes |-> node.timeToRead],
        html |-> OrElse(node.frontmatter, "description", node.excerpt)]

\* components/PostListItem.js; no caller passes the title prop, so the
\* default applies
PostListItem(node) ==
    LET title == OrElse(node.frontmatter, "title", node.fields.slug)
    IN [key |-> node.fields.slug,
        link |-> [to |-> node.fields.slug, rel |-> "bookmark",
                  children |-> <<title>>],
        small |-> [date |-> node.frontmatter.date, separator |-> BulletGarbled,
                   minutes |-> node.timeToRead],
        html |-> OrElse(node.frontmatter, "description", node.excerpt)]

\* the summary the earlier blog index renders inline
InlineListItem(node) ==
    LET title == OrElse(node.frontmatter, "title", node.fields.slug)
    IN [key |-> node.fields.slug,
        link |-> [to |-> node.fields.slug, rel |-> "bookmark",
                  children |-> <<title>>],
        small |-> [date |-> node.frontmatter.date, separator |-> Bullet,
                   minutes |-> node.timeToRead],
        html |-> OrElse(node.frontmatter, "description", node.excerpt)]

\* the summary the earliest blog index renders inline
InlineListItemLegacy(node) ==
    LET title == OrElse(node.frontmatter, "title", node.fields.slug)
    IN [key |-> node.fields.slug,
        link |-> [to |-> node.fields.slug, rel |-> "bookmark",
                  children |-> <<title>>],
        small |-> [date |-> node.frontmatter.date, separator |-> BulletGarbled,
                   minutes |-> node.timeToRead],
        html |-> OrElse(node.frontmatter, "description", node.excerpt)]

\* components/Footer.js: the two profile links
Footer ==
    [links |-> <<"https://mobile.twitter.com/janhesters",
                 "https://www.instagram.com/janhesters/">>]

\* components/footer.js, the earlier footer: new Date().getFullYear() reads
\* the wall clock at the moment of the render
footer ==
    [copyright |-> [year |-> clock, holder |-> "Jan Hesters"],
     links |-> <<"https://mobile.twitter.com/geromekevin",
                 "https://www.instagram.com/geromekevin/">>]

\* pages/index.js, rendering through PostListItem
BlogIndex(data) ==
    LET posts == data.allMarkdownRemark.edges
    IN [component |-> "BlogIndex",
        main |-> [i \in 1..Len(posts) |-> PostListItem(posts[i].node)],
        footer |-> Footer]

\* pages/index.js, the earlier revision
BlogIndexInline(data) ==
    LET posts == data.allMarkdownRemark.edges
    IN [component |-> "BlogIndex",
        main |-> [i \in 1..Len(posts) |-> InlineListItem(posts[i].node)],
        footer |-> Footer]

\* pages/index.js, the earliest revision: inline summaries and the earlier
\* footer
BlogIndexLegacy(data) ==
    LET posts == data.allMarkdownRemark.edges
    IN [component |-> "BlogIndex",
        main |-> [i \in 1..Len(posts) |-> InlineListItemLegacy(posts[i].node)],
        footer |-> footer]

\* gatsby-config.js sets no pathPrefix
PATH_PREFIX == ""

\* siteMetadata.title
siteTitle == "Jan Hesters"

\* the layout with the enlarged title on every route
LayoutEnlargedEverywhere(location, title, children) ==
    LET link == [to |-> "/", children |-> <<title>>]
        header == [element |-> "h1", link |-> link]
    IN <<[element |-> "header", children |-> <<header>>], children>>

\* components/layout.js: the children of the outer div, in document order
Layout(location, title, children) ==
    LET rootPath == PATH_PREFIX \o "/"
        link == [to |-> "/", children |-> <<title>>]
        header == IF location.pathname = rootPath
                  THEN [element |-> "h1", link |-> link]
                  ELSE [element |-> "h3", link |-> link]
    IN <<[element |-> "header", children |-> <<header>>], children>>

\* the tag page with the singular noun for every count up to one
TagsSingularUpToOne(pageContext, data) ==
    LET tag == pageContext.tag
        posts == data.allMarkdownRemark.edges
        totalCount == data.allMarkdownRemark.totalCount
        tagHeader == [count |-> totalCount,
                      noun |-> "post" \o (IF totalCount <= 1 THEN "" ELSE "s"),
                      tag |-> tag]
    IN [component |-> "Tags",
        h1 |-> tagHeader,
        main |-> [i \in 1..Len(posts) |-> PostListItem(posts[i].node)]]

\* templates/tags.js
Tags(pageContext, data) ==
    LET tag == pageContext.tag
        posts == data.allMarkdownRemark.edges
        totalCount == data.allMarkdownRemark.totalCount
        tagHeader == [count |-> totalCount,
                      noun |-> "post" \o (IF totalCount = 1 THEN "" ELSE "s"),
                      tag |-> tag]
    IN [component |-> "Tags",
        h1 |-> tagHeader,
        main |-> [i \in 1..Len(posts) |-> PostListItem(posts[i].node)]]

TagRoute(tag) == "/tags/" \o Join(kebabCase(tag)) \o "/"

\* the tags index showing the number of groups next to each tag
TagsPageGroupLength(data) ==
    LET group == data.allMarkdownRemark.group
    IN [component |-> "TagsPage",
        ul |-> [i \in 1..Len(group) |->
                  [key |-> group[i].fieldValue,
                   to |-> TagRoute(group[i].fieldValue),
                   tag |-> group[i].fieldValue,
                   count |-> Len(group)]]]

\* pages/tags.js
TagsPage(data) ==
    LET group == data.allMarkdownRemark.group
    IN [component |-> "TagsPage",
        ul |-> [i \in 1..Len(group) |->
                  [key |-> group[i].fieldValue,
                   to |-> TagRoute(group[i].fieldValue),
                   tag |-> group[i].fieldValue,
                   count |-> group[i].totalCount]]]

\* Array.prototype.sort without a comparator: in place, by code units
RECURSIVE InsertTag(_, _)
InsertTag(sorted, t) ==
    IF sorted = <<>> THEN <<t>>
    ELSE IF StrLess(t, Head(sorted)) THEN <<t>> \o sorted
    ELSE <<Head(sorted)>> \o InsertTag(Tail(sorted), t)

\* the tags left in the order of the frontmatter
SortTagsFrontmatterOrder(tags) == tags

RECURSIVE SortTags(_)
SortTags(tags) ==
    IF tags = <<>> THEN <<>>
    ELSE InsertTag(SortTags(SubSeq(tags, 1, Len(tags) - 1)), tags[Len(tags)])

\* the links rendered only when the post has both neighbours
NavLinksBoth(pageContext) ==
    LET both == {"previous", "next"} \subseteq DOMAIN pageContext
    IN [prev |-> IF both
                 THEN <<[to |-> pageContext.previous.fields.slug, rel |-> "prev",
                         children |-> <<"<- ">>
                            \o Child(pageContext.previous.frontmatter, "title")]>>
                 ELSE <<>>,
        next |-> IF both
                 THEN <<[to |-> pageContext.next.fields.slug, rel |-> "next",
                         children |-> Child(pageContext.next.frontmatter, "title")
                            \o <<" ->">>]>>
                 ELSE <<>>]

\* the previous link leading to the page's own slug
NavLinksOwnSlug(pageContext) ==
    [prev |-> IF "previous" \in DOMAIN pageContext
              THEN <<[to |-> pageContext.slug, rel |-> "prev",
                      children |-> <<"<- ">>
                         \o Child(pageContext.previous.frontmatter, "title")]>>
              ELSE <<>>,
     next |-> IF "next" \in DOMAIN pageContext
              THEN <<[to |-> pageContext.next.fields.slug, rel |-> "next",
                      children |-> Child(pageContext.next.frontmatter, "title")
                         \o <<" ->">>]>>
              ELSE <<>>]

\* the prev/next links of the post page: each rendered when its neighbour
\* is in the page context
NavLinks(pageContext) ==
    [prev |-> IF "previous" \in DOMAIN pageContext
              THEN <<[to |-> pageContext.previous.fields.slug, rel |-> "prev",
                      children |-> <<"<- ">>
                         \o Child(pageContext.previous.frontmatter, "title")]>>
              ELSE <<>>,
     next |-> IF "next" \in DOMAIN pageContext
              THEN <<[to |-> pageContext.next.fields.slug, rel |-> "next",
                      children |-> Child(pageContext.next.frontmatter, "title")
                         \o <<" ->">>]>>
              ELSE <<>>]

\* the target of a tag chip on the post page
ChipRoute(tag) == "/tags/" \o Join(kebabCase(tag)) \o "/"

\* the post page with a separator behind every chip
BlogPostTemplateTrailingSeparator(pageContext, data) ==
    LET post == data.markdownRemark
        tags == SortTags(TagsOf(post))
    IN [component |-> "BlogPostTemplate",
        h1 |-> Child(post.frontmatter, "title"),
        byline |-> [date |-> post.frontmatter.date, separator |-> Bullet,
                    minutes |-> post.timeToRead],
        chips |-> [i \in 1..Len(tags) |->
                     [key |-> tags[i], to |-> ChipRoute(tags[i]), text |-> tags[i],
                      separator |-> ", "]],
        html |-> post.html,
        nav |-> NavLinks(pageContext)]

\* the post page sorting the tag list of the frontmatter without the
\* fallback to []: a post without tags throws in render
BlogPostTemplateTagsRequired(pageContext, data) ==
    LET post == data.markdownRemark
        tags == SortTags(TagsOf(post))
    IN IF "tags" \notin DOMAIN post.frontmatter
       THEN [component |-> "BlogPostTemplate",
             error |-> "TypeError: Cannot read property 'sort' of null"]
       ELSE [component |-> "BlogPostTemplate",
             h1 |-> Child(post.frontmatter, "title"),
             byline |-> [date |-> post.frontmatter.date, separator |-> Bullet,
                         minutes |-> post.timeToRead],
             chips |-> [i \in 1..Len(tags) |->
                          [key |-> tags[i], to |-> ChipRoute(tags[i]),
                           text |-> tags[i],
                           separator |-> IF i = Len(tags) THEN "" ELSE ", "]],
             html |-> post.html,
             nav |-> NavLinks(pageContext)]

\* templates/blog-post.js
BlogPostTemplate(pageContext, data) ==
    LET post == data.markdownRemark
        tags == SortTags(TagsOf(post))
    IN [component |-> "BlogPostTemplate",
        h1 |-> Child(post.frontmatter, "title"),
        byline |-> [date |-> post.frontmatter.date, separator |-> Bullet,
                    minutes |-> post.timeToRead],
        chips |-> [i \in 1..Len(tags) |->
                     [key |-> tags[i], to |-> ChipRoute(tags[i]), text |-> tags[i],
                      separator |-> IF i = Len(tags) THEN "" ELSE ", "]],
        html |-> post.html,
        nav |-> NavLinks(pageContext)]

\* the query result after the post page rendered: tags.sort() sorted the
\* post's own tag list
BlogPostData(data) ==
    IF "tags" \in DOMAIN data.markdownRemark.frontmatter
    THEN [data EXCEPT !.markdownRemark.frontmatter.tags = SortTags(@)]
    ELSE data

\* the earlier revision with the next link leading to the previous post
NavLinksLegacyNextIsPrevious(pageContext) ==
    [prev |-> IF "previous" \in DOMAIN pageContext
              THEN <<[to |-> pageContext.previous.fields.slug, rel |-> "prev",
                      children |-> <<"<- ">>
                         \o Child(pageContext.previous.frontmatter, "title")]>>
              ELSE <<>>,
     next |-> IF "next" \in DOMAIN pageContext
              THEN <<[to |-> IF "previous" \in DOMAIN pageContext
                             THEN pageContext.previous.fields.slug
                             ELSE pageContext.next.fields.slug,
                      rel |-> "next",
                      children |-> Child(pageContext.next.frontmatter, "title")
                         \o <<" ->">>]>>
              ELSE <<>>]

\* templates/blog-post.js, the earlier revision without tag chips
NavLinksLegacy(pageContext) ==
    [prev |-> IF "previous" \in DOMAIN pageContext
              THEN <<[to |-> pageContext.previous.fields.slug, rel |-> "prev",
                      children |-> <<"<- ">>
                         \o Child(pageContext.previous.frontmatter, "title")]>>
              ELSE <<>>,
     next |-> IF "next" \in DOMAIN pageContext
              THEN <<[to |-> pageContext.next.fields.slug, rel |-> "next",
                      children |-> Child(pageContext.next.frontmatter, "title")
                         \o <<" ->">>]>>
              ELSE <<>>]

BlogPostTemplateLegacy(pageContext, data) ==
    LET post == data.markdownRemark
    IN [component |-> "BlogPostTemplate",
        h1 |-> Child(post.frontmatter, "title"),
        byline |-> [date |-> post.frontmatter.date, separator |-> Bullet,
                    minutes |-> post.timeToRead],
        chips |-> <<>>,
        html |-> post.html,
        nav |-> NavLinksLegacy(pageContext)]

-----------------------------------------------------------------------------
(* Page creation (gatsby-node.js and src/pages) *)

\* a page created for a path that already has a page replaces it
createPage(pages, page) ==
    IF \E i \in 1..Len(pages) : pages[i].path = page.path
    THEN [i \in 1..Len(pages) |->
            IF pages[i].path = page.path THEN page ELSE pages[i]]
    ELSE Append(pages, page)

RECURSIVE CreateAll(_, _)
CreateAll(pages, todo) ==
    IF todo = <<>> THEN pages
    ELSE CreateAll(createPage(pages, Head(todo)), Tail(todo))

\* a neighbour as the page context carries it
NavNode(n) ==
    [fields |-> [slug |-> n.fields.slug],
     frontmatter |-> [k \in DOMAIN n.frontmatter \cap {"title"} |->
                        n.frontmatter[k]]]

\* one page per post, in the date-descending order of the posts: previous is
\* the next older post, next the next newer one
PostPages(posts, component) ==
    [i \in 1..Len(posts) |->
       [path |-> posts[i].fields.slug,
        component |-> component,
        context |-> [slug |-> posts[i].fields.slug]
                      @@ (IF i < Len(posts)
                          THEN ("previous" :> NavNode(posts[i + 1]))
                          ELSE EmptyObject)
                      @@ (IF i > 1
                          THEN ("next" :> NavNode(posts[i - 1]))
                          ELSE EmptyObject)]]

\* the distinct tags of the posts, in order of first occurrence
RECURSIVE UniqTags(_, _)
UniqTags(tags, seen) ==
    IF tags = <<>> THEN seen
    ELSE UniqTags(Tail(tags),
                  IF Head(tags) \in Range(seen) THEN seen
                  ELSE Append(seen, Head(tags)))

RECURSIVE AllTags(_)
AllTags(posts) ==
    IF posts = <<>> THEN <<>> ELSE TagsOf(Head(posts)) \o AllTags(Tail(posts))

\* one page per tag
TagPages(posts) ==
    LET tags == UniqTags(AllTags(posts), <<>>)
    IN [i \in 1..Len(tags) |->
          [path |-> TagRoute(tags[i]),
           component |-> "Tags",
           context |-> [tag |-> tags[i]]]]

\* the pages of src/pages
StaticPages ==
    <<[path |-> "/", component |-> "BlogIndex", context |-> EmptyObject],
      [path |-> "/tags/", component |-> "TagsPage", context |-> EmptyObject]>>

createPages(nodes, blogPost) ==
    LET posts == SortByDateDesc(nodes)
    IN CreateAll(<<>>, PostPages(posts, blogPost) \o TagPages(posts)
                         \o StaticPages)

-----------------------------------------------------------------------------
(* The build *)

\* what a template returns inside the layout for its props
Template(template, pageContext, data) ==
    CASE template = "BlogIndex" -> BlogIndex(data)
      [] template = "BlogIndexInline" -> BlogIndexInline(data)
      [] template = "BlogIndexLegacy" -> BlogIndexLegacy(data)
      [] template = "Tags" -> Tags(pageContext, data)
      [] template = "TagsPage" -> TagsPage(data)
      [] template = "BlogPostTemplate" -> BlogPostTemplate(pageContext, data)
      [] OTHER -> BlogPostTemplateLegacy(pageContext, data)

\* the data object after the render
DataAfter(template, data) ==
    IF template = "BlogPostTemplate" THEN BlogPostData(data) ELSE data

\* the site with the page rendered by the template: every template wraps
\* its markup in <Layout location={location} title={siteTitle}>
Rendered(page, template, data) ==
    LET location == [pathname |-> PATH_PREFIX \o page.path]
        markup == Template(template, page.context, data)
    IN (page.path :> [pageContext |-> page.context,
                      location |-> location,
                      template |-> template,
                      data |-> DataAfter(template, data),
                      markup |-> markup,
                      layout |-> Layout(location, siteTitle, markup)]) @@ site

\* the pages are created once, before any page renders
CreatePages ==
    /\ queue = <<>>
    /\ site = EmptyObject
    /\ \E blogPost \in {"blog-post", "blog-post-legacy"} :
          queue' = createPages(store, blogPost)
    /\ UNCHANGED <<store, site, clock>>

RenderBlogPost ==
    /\ queue # <<>>
    /\ Head(queue).component \in {"blog-post", "blog-post-legacy"}
    /\ LET page == Head(queue)
           data == BlogPostBySlug(store, page.context.slug)
       IN site' = IF page.component = "blog-post"
                  THEN Rendered(page, "BlogPostTemplate", data)
                  ELSE Rendered(page, "BlogPostTemplateLegacy", data)
    /\ queue' = Tail(queue)
    /\ UNCHANGED <<store, clock>>

RenderTags ==
    /\ queue # <<>>
    /\ Head(queue).component = "Tags"
    /\ LET page == Head(queue)
           data == TagsQuery(store, page.context.tag)
       IN site' = Rendered(page, "Tags", data)
    /\ queue' = Tail(queue)
    /\ UNCHANGED <<store, clock>>

RenderBlogIndex ==
    /\ queue # <<>>
    /\ Head(queue).component = "BlogIndex"
    /\ LET page == Head(queue)
           data == BlogIndexQuery(store)
       IN \E template \in {"BlogIndex", "BlogIndexInline", "BlogIndexLegacy"} :
             site' = Rendered(page, template, data)
    /\ queue' = Tail(queue)
    /\ UNCHANGED <<store, clock>>

RenderTagsPage ==
    /\ queue # <<>>
    /\ Head(queue).component = "TagsPage"
    /\ LET page == Head(queue)
           data == TagsPageQuery(store)
       IN site' = Rendered(page, "TagsPage", data)
    /\ queue' = Tail(queue)
    /\ UNCHANGED <<store, clock>>

\* a page that has rendered renders again from the props of its last render
Rerender ==
    /\ \E path \in DOMAIN site :
          site' = Rendered([path |-> path, context |-> site[path].pageContext],
                           site[path].template, site[path].data)
    /\ UNCHANGED <<store, queue, clock>>

\* the year of the wall clock when the build starts
FirstYear == 2019

\* a new year begins
Tick ==
    /\ clock < FirstYear + MaxTicks
    /\ clock' = clock + 1
    /\ UNCHANGED <<store, queue, site>>

Next ==
    \/ CreatePages
    \/ RenderBlogPost
    \/ RenderTags
    \/ RenderBlogIndex
    \/ RenderTagsPage
    \/ Rerender
    \/ Tick

InitWith(profile) ==
    /\ store \in Stores(profile)
    /\ queue = <<>>
    /\ site = EmptyObject
    /\ clock = FirstYear

Init == InitWith("tags")

InitItems == InitWith("items")

InitCase == InitWith("case")

InitNav == InitWith("nav")

InitDated == InitWith("dated")

InitOptional == InitWith("optional")

Spec == Init /\ [][Next]_vars

SpecItems == InitItems /\ [][Next]_vars

SpecCase == InitCase /\ [][Next]_vars

SpecNav == InitNav /\ [][Next]_vars

SpecDated == InitDated /\ [][Next]_vars

SpecOptional == InitOptional /\ [][Next]_vars

-----------------------------------------------------------------------------
(* Properties of the post summaries *)

PostAt(slug) == CHOOSE n \in Range(store) : n.fields.slug = slug

\* the rendered pages that list post summaries
ListPaths == {p \in DOMAIN site : site[p].markup.component \in {"BlogIndex", "Tags"}}

Items(p) == site[p].markup.main

Present(n, key) == key \in DOMAIN n.frontmatter /\ n.frontmatter[key] # ""

\* C1: every post summary on a rendered list page (blog index or tag page)
\* shows the post's frontmatter title when the post has a non-empty one, and
\* the post's slug otherwise.
ListItemTitle ==
    \A p \in ListPaths : \A i \in 1..Len(Items(p)) :
        LET n == PostAt(Items(p)[i].key)
        IN Items(p)[i].link.children =
              <<IF Present(n, "title") THEN n.frontmatter.title
                ELSE n.fields.slug>>

\* a list page shows the title of one post and the slug of a post whose title
\* is absent and of one whose title is empty
ListItemTitleWitness ==
    \E p \in ListPaths : \E i, j, k \in 1..Len(Items(p)) :
        /\ Present(PostAt(Items(p)[i].key), "title")
        /\ Items(p)[i].link.children = <<"A">>
        /\ "title" \notin DOMAIN PostAt(Items(p)[j].key).frontmatter
        /\ Items(p)[j].link.children = <<"/b/">>
        /\ "title" \in DOMAIN PostAt(Items(p)[k].key).frontmatter
        /\ PostAt(Items(p)[k].key).frontmatter.title = ""
        /\ Items(p)[k].link.children = <<"/c/">>

\* C2: every post summary on a rendered list page shows the post's
\* frontmatter description when the post has a non-empty one, and the post's
\* excerpt otherwise.
ListItemDescription ==
    \A p \in ListPaths : \A i \in 1..Len(Items(p)) :
        LET n == PostAt(Items(p)[i].key)
        IN Items(p)[i].html =
              IF Present(n, "description") THEN n.frontmatter.description
              ELSE n.excerpt

ListItemDescriptionWitness ==
    \E p \in ListPaths : \E i, j \in 1..Len(Items(p)) :
        /\ Present(PostAt(Items(p)[i].key), "description")
        /\ Items(p)[i].html = "about A"
        /\ ~Present(PostAt(Items(p)[j].key), "description")
        /\ Items(p)[j].html = "excerpt of /b/"

-----------------------------------------------------------------------------
(* Properties of the tag pages and the tags index *)

\* the post's tag list contains the tag, letter for letter
Carries(n, tag) ==
    /\ "tags" \in DOMAIN n.frontmatter
    /\ \E k \in DOMAIN n.frontmatter.tags : n.frontmatter.tags[k] = tag

Carriers(tag) == {i \in 1..Len(store) : Carries(store[i], tag)}

TagPaths == {p \in DOMAIN site : site[p].markup.component = "Tags"}

\* C3: the count in the header of every rendered tag page is the number of
\* posts of the store whose tag list contains the page's tag exactly.
TagPageCount ==
    \A p \in TagPaths :
        site[p].markup.h1.count = Cardinality(Carriers(site[p].pageContext.tag))

\* the page of tag x counts two posts while a third carries only X
TagPageCountWitness ==
    \E p \in TagPaths :
        /\ site[p].pageContext.tag = <<"x">>
        /\ site[p].markup.h1.count = 2
        /\ \E i \in 1..Len(store) :
              Carries(store[i], <<"X">>) /\ ~Carries(store[i], <<"x">>)

-----------------------------------------------------------------------------
(* Properties of the date order *)

\* post i precedes post j in the global date-descending order: it is newer,
\* or as old and earlier in the store
Precedes(i, j) ==
    \/ DateKey(store[i].frontmatter.date) > DateKey(store[j].frontmatter.date)
    \/ /\ DateKey(store[i].frontmatter.date) = DateKey(store[j].frontmatter.date)
       /\ i < j

\* j is the post right behind i in that order (the next older one)
Follows(j, i) ==
    /\ Precedes(i, j)
    /\ ~\E k \in 1..Len(store) : Precedes(i, k) /\ Precedes(k, j)

IndexOf(slug) == CHOOSE i \in 1..Len(store) : store[i].fields.slug = slug

PostPaths ==
    {p \in DOMAIN site : site[p].markup.component = "BlogPostTemplate"}

Nav(p) == site[p].markup.nav

\* C4: a rendered post page has the previous link if and only if a post
\* follows it in the global date-descending order, and the next link if and
\* only if a post precedes it; so the newest post has no next link and the
\* oldest no previous link.
NavLinksPresent ==
    \A p \in PostPaths :
        /\ Nav(p).prev # <<>> <=>
              \E j \in 1..Len(store) : Precedes(IndexOf(p), j)
        /\ Nav(p).next # <<>> <=>
              \E j \in 1..Len(store) : Precedes(j, IndexOf(p))

\* the pages of the newest, of a middle and of the oldest post are rendered
NavLinksPresentWitness ==
    \E p, q, r \in PostPaths :
        /\ Nav(p).prev # <<>> /\ Nav(p).next = <<>>
        /\ Nav(q).prev # <<>> /\ Nav(q).next # <<>>
        /\ Nav(r).prev = <<>> /\ Nav(r).next # <<>>

LinkTo(j, arrowFirst) ==
    LET title == IF "title" \in DOMAIN store[j].frontmatter
                 THEN <<store[j].frontmatter.title>> ELSE <<>>
    IN [to |-> store[j].fields.slug,
        children |-> IF arrowFirst THEN <<"<- ">> \o title
                     ELSE title \o <<" ->">>]

\* C5: on a rendered post page the previous link leads to the slug and shows
\* the title of the post right behind it in the global date-descending order
\* (the next older one), and the next link leads to the slug and shows the
\* title of the post right before it (the next newer one).
NavLinksTarget ==
    \A p \in PostPaths :
        /\ \A k \in 1..Len(Nav(p).prev) : \E j \in 1..Len(store) :
              /\ Follows(j, IndexOf(p))
              /\ Nav(p).prev[k].to = LinkTo(j, TRUE).to
              /\ Nav(p).prev[k].children = LinkTo(j, TRUE).children
        /\ \A k \in 1..Len(Nav(p).next) : \E j \in 1..Len(store) :
              /\ Follows(IndexOf(p), j)
              /\ Nav(p).next[k].to = LinkTo(j, FALSE).to
              /\ Nav(p).next[k].children = LinkTo(j, FALSE).children

\* posts A, B, C dated in increasing order: the page of B links back to A
\* and forward to C
NavLinksTargetWitness ==
    /\ Len(store) = 3
    /\ \A i \in 1..3 : store[i].frontmatter.date.month = i
    /\ "/b/" \in PostPaths
    /\ Nav("/b/").prev # <<>>
    /\ Nav("/b/").prev[1].to = "/a/"
    /\ Nav("/b/").prev[1].children = <<"<- ", "A">>
    /\ Nav("/b/").next # <<>>
    /\ Nav("/b/").next[1].to = "/c/"
    /\ Nav("/b/").next[1].children = <<"C", " ->">>

NextOf(p) == IF Nav(p).next = <<>> THEN {} ELSE {Nav(p).next[1].to}

PrevOf(p) == IF Nav(p).prev = <<>> THEN {} ELSE {Nav(p).prev[1].to}

\* the slugs reached from p by following next links, p included
RECURSIVE NextChain(_, _)
NextChain(p, fuel) ==
    IF fuel = 0 \/ NextOf(p) = {} \/ ~(NextOf(p) \subseteq PostPaths) THEN <<p>>
    ELSE <<p>> \o NextChain(CHOOSE q \in NextOf(p) : TRUE, fuel - 1)

AllPostsRendered == queue = <<>> /\ site # EmptyObject

\* C6: once every post page is rendered, Q is the next of P if and only if P
\* is the previous of Q, and the next links followed from the oldest post
\* visit every post exactly once.
NavConsistent ==
    AllPostsRendered =>
        /\ \A p, q \in PostPaths : q \in NextOf(p) <=> p \in PrevOf(q)
        /\ \A p \in PostPaths :
              PrevOf(p) = {} =>
                 LET chain == NextChain(p, Len(store) + 1)
                 IN /\ Len(chain) = Len(store)
                    /\ Range(chain) = {store[i].fields.slug : i \in 1..Len(store)}

\* three posts, two of them of the same date, all rendered
NavConsistentWitness ==
    /\ AllPostsRendered
    /\ Len(store) = 3
    /\ store[1].frontmatter.date = store[3].frontmatter.date
    /\ store[1].frontmatter.date # store[2].frontmatter.date
    /\ \E p \in PostPaths : NextOf(p) # {} /\ PrevOf(p) # {}

\* C10: on the rendered blog index, of two posts with different dates the one
\* with the later date comes first.
BlogIndexNewestFirst ==
    "/" \in DOMAIN site =>
        \A i, j \in 1..Len(Items("/")) :
            DateKey(PostAt(Items("/")[i].key).frontmatter.date)
               > DateKey(PostAt(Items("/")[j].key).frontmatter.date)
            => i < j

\* posts A, B, C dated in increasing order are listed C, B, A
BlogIndexNewestFirstWitness ==
    /\ "/" \in DOMAIN site
    /\ Len(store) = 3
    /\ \A i \in 1..3 : store[i].frontmatter.date.month = i
    /\ [i \in 1..Len(Items("/")) |-> Items("/")[i].key] = <<"/c/", "/b/", "/a/">>

-----------------------------------------------------------------------------
(* Properties of the tag page *)

\* the place of the post with this slug on the rendered blog index
IndexPlace(slug) ==
    CHOOSE i \in 1..Len(Items("/")) : Items("/")[i].key = slug

\* C11: a rendered tag page lists its posts in date-descending order (no
\* post comes before a newer one), and in the relative order in which the
\* rendered blog index lists them.
TagPageOrder ==
    \A p \in TagPaths : \A i, j \in 1..Len(Items(p)) :
        i < j =>
           /\ DateKey(PostAt(Items(p)[i].key).frontmatter.date)
                 >= DateKey(PostAt(Items(p)[j].key).frontmatter.date)
           /\ "/" \in DOMAIN site =>
                 IndexPlace(Items(p)[i].key) < IndexPlace(Items(p)[j].key)

\* posts A and B tagged x, A older than B, and an untagged post newer than
\* both: the page of x lists B, A and the index lists C, B, A
TagPageOrderWitness ==
    /\ "/" \in DOMAIN site
    /\ Len(store) = 3
    /\ \A i \in 1..3 : store[i].frontmatter.date.month = i
    /\ Carriers(<<"x">>) = {1, 2}
    /\ \E p \in TagPaths :
          [i \in 1..Len(Items(p)) |-> Items(p)[i].key] = <<"/b/", "/a/">>
    /\ [i \in 1..Len(Items("/")) |-> Items("/")[i].key] = <<"/c/", "/b/", "/a/">>

\* the tag page of any tag name over the store, carried by a post or not
TagPageOf(tag) == Tags([tag |-> tag], TagsQuery(store, tag))

\* the header of a tag page reads "N post tagged with ..." when N is 1 and
\* "N posts tagged with ..." otherwise
HeaderAgrees(h1) ==
    h1.noun = (IF h1.count = 1 THEN "post" ELSE "posts")

\* C12: the header of a tag page has the singular noun exactly when its count
\* is 1 and the plural noun for every other count, 0 included: on every
\* rendered tag page, and on the tag page of every tag name, also of one no
\* post carries.
TagHeaderNoun ==
    /\ \A p \in TagPaths : HeaderAgrees(site[p].markup.h1)
    /\ \A tag \in TagNames :
          /\ HeaderAgrees(TagPageOf(tag).h1)
          /\ TagPageOf(tag).h1.count = Cardinality(Carriers(tag))
          /\ TagPageOf(tag).h1.tag = tag

\* a rendered page of one post, a rendered page of two posts, and a tag name
\* whose page counts no post
TagHeaderNounWitness ==
    /\ \E p \in TagPaths : site[p].markup.h1 =
          [count |-> 1, noun |-> "post", tag |-> <<"x">>]
    /\ \E p \in TagPaths : site[p].markup.h1 =
          [count |-> 2, noun |-> "posts", tag |-> <<"y">>]
    /\ TagPageOf(<<"X">>).h1 = [count |-> 0, noun |-> "posts", tag |-> <<"X">>]

-----------------------------------------------------------------------------
(* Properties of the layout *)

\* the site root path: the path prefix followed by "/"
RootPath == PATH_PREFIX \o "/"

\* C13: every rendered page has exactly one header, holding the enlarged
\* title (h1) if and only if the route path of the page is the site root
\* path and the compact title link (h3) on every other route, and the
\* markup of the page follows the header.
LayoutHeader ==
    \A p \in DOMAIN site :
       LET shell == site[p].layout
           titles == shell[1].children
       IN /\ Len(shell) = 2
          /\ shell[1].element = "header"
          /\ Len(titles) = 1
          /\ titles[1].element \in {"h1", "h3"}
          /\ titles[1].element = "h1" <=> site[p].location.pathname = RootPath
          /\ titles[1].link = [to |-> "/", children |-> <<siteTitle>>]
          /\ shell[2] = site[p].markup

\* the blog index at the root path under the enlarged title, the tags index
\* and a post page under the compact title
LayoutHeaderWitness ==
    /\ {"/", "/tags/", "/a/"} \subseteq DOMAIN site
    /\ site["/"].layout[1].children[1].element = "h1"
    /\ site["/tags/"].layout[1].children[1].element = "h3"
    /\ site["/a/"].layout[1].children[1].element = "h3"
    /\ site["/"].layout[2].component = "BlogIndex"

-----------------------------------------------------------------------------
(* Properties of the tag chips *)

\* the pages rendered by the post template that shows tag chips
ChipPaths ==
    {p \in DOMAIN site : site[p].template = "BlogPostTemplate"}

Chips(p) == site[p].markup.chips

\* the tag list of the post of a post page, as the content store holds it
StoredTags(p) ==
    LET fm == PostAt(site[p].pageContext.slug).frontmatter
    IN IF "tags" \in DOMAIN fm THEN fm.tags ELSE <<>>

\* C14: the tag chips of a post page are the tags of the post in ascending
\* string order (no chip is followed by one that compares less, code unit
\* by code unit), whatever the order of the tags in the frontmatter.
ChipsAscending ==
    \A p \in ChipPaths :
       /\ Len(Chips(p)) = Len(StoredTags(p))
       /\ {Chips(p)[i].text : i \in 1..Len(Chips(p))} = Range(StoredTags(p))
       /\ \A i, j \in 1..Len(Chips(p)) :
             i < j => ~StrLess(Chips(p)[j].text, Chips(p)[i].text)

\* a post whose frontmatter lists y before x shows the chips x, y
ChipsAscendingWitness ==
    \E p \in ChipPaths :
       /\ StoredTags(p) = <<<<"y">>, <<"x">>>>
       /\ [i \in 1..Len(Chips(p)) |-> Chips(p)[i].text] = <<<<"x">>, <<"y">>>>

\* C15: on a post page a separator follows every chip except the last: a
\* post of n >= 1 tags shows n - 1 separators, a post of one tag none.
ChipSeparators ==
    \A p \in ChipPaths :
       LET n == Len(Chips(p))
           separated == {i \in 1..n : Chips(p)[i].separator # ""}
       IN /\ separated = 1..(n - 1)
          /\ n >= 1 => Cardinality(separated) = n - 1
          /\ \A i \in separated : Chips(p)[i].separator = ", "

\* a post of one tag without a separator and a post of two tags with one
ChipSeparatorsWitness ==
    /\ \E p \in ChipPaths :
          [i \in 1..Len(Chips(p)) |-> Chips(p)[i].separator] = <<"">>
    /\ \E p \in ChipPaths :
          [i \in 1..Len(Chips(p)) |-> Chips(p)[i].separator] = <<", ", "">>

\* the entries of the rendered tags index
Entries == IF "/tags/" \in DOMAIN site THEN site["/tags/"].markup.ul ELSE <<>>

\* C16: the chip of a tag on a post page and the entry of the tag on the
\* tags index link to the same route /tags/<slug-cased tag>/, and that
\* route is the route of that tag alone, so that both links lead to the tag
\* page of their tag: a chip and an entry share their target exactly when
\* they show the same tag.
ChipAndEntryRoutes ==
    \A p \in ChipPaths : \A i \in 1..Len(Chips(p)) : \A j \in 1..Len(Entries) :
       LET chip == Chips(p)[i]
           entry == Entries[j]
       IN /\ chip.text = entry.tag =>
                /\ chip.to = entry.to
                /\ chip.to = "/tags/" \o Join(kebabCase(chip.text)) \o "/"
          /\ chip.to = entry.to => chip.text = entry.tag

\* C17: two distinct tag names never share a tag route: the entries of the
\* tags index for distinct tags link to distinct routes.
TagRoutesDistinct ==
    \A i, j \in 1..Len(Entries) :
       Entries[i].tag # Entries[j].tag => Entries[i].to # Entries[j].to

-----------------------------------------------------------------------------
(* Properties of the render *)

\* the pages rendered by a post template
PostTemplatePaths ==
    {p \in DOMAIN site :
        site[p].template \in {"BlogPostTemplate", "BlogPostTemplateLegacy"}}

\* C18: rendering leaves the post it received unchanged: after a post page
\* has rendered, the post in its data is the post the page query handed to
\* the template, every attribute and the order of the tag list included.
PostDataUnchanged ==
    \A p \in PostTemplatePaths :
       site[p].data = BlogPostBySlug(store, site[p].pageContext.slug)

\* C19: rendering is a pure function of the props: when a page renders
\* again with the template, page context, location and data of its last
\* render, its markup and its layout are the same, whenever the render runs.
RenderPure ==
    [][\A p \in DOMAIN site \cap DOMAIN site' :
          (/\ site'[p].template = site[p].template
           /\ site'[p].pageContext = site[p].pageContext
           /\ site'[p].location = site[p].location
           /\ site'[p].data = site[p].data)
          => /\ site'[p].markup = site[p].markup
             /\ site'[p].layout = site[p].layout]_vars

-----------------------------------------------------------------------------
(* Properties of the lists *)

\* the posts of the content store with this slug
PostsWithSlug(slug) == {i \in 1..Len(store) : store[i].fields.slug = slug}

\* C20: no two items of a rendered list (blog index or tag page) share a
\* slug: the keys of the items are pairwise distinct, so are the link
\* targets, and the key and the link target of an item are the slug of
\* exactly one post.
ListSlugsUnique ==
    \A p \in ListPaths :
       /\ \A i, j \in 1..Len(Items(p)) :
             i # j => /\ Items(p)[i].key # Items(p)[j].key
                      /\ Items(p)[i].link.to # Items(p)[j].link.to
       /\ \A i \in 1..Len(Items(p)) :
             /\ Items(p)[i].key = Items(p)[i].link.to
             /\ Cardinality(PostsWithSlug(Items(p)[i].key)) = 1

\* a blog index and a tag page of three posts each, two of the posts
\* published on the same day
ListSlugsUniqueWitness ==
    /\ "/" \in DOMAIN site
    /\ \E p \in TagPaths : Len(Items(p)) = 3
    /\ Len(Items("/")) = 3
    /\ store[1].frontmatter.date = store[2].frontmatter.date

-----------------------------------------------------------------------------
(* Properties of posts without tags *)

\* the post of a rendered post page, as the content store holds it
PostOf(p) == PostAt(site[p].pageContext.slug)

\* the pages of posts without a tags field, rendered by the post template
\* that shows tag chips
UntaggedChipPaths ==
    {p \in DOMAIN site : /\ site[p].template = "BlogPostTemplate"
                         /\ "tags" \notin DOMAIN PostOf(p).frontmatter}

\* C21: the page of a post without a tags field renders without error,
\* with no tag chip (hence no separator), and with the title, the byline,
\* the body and the previous/next links of the post.
UntaggedPostPage ==
    \A p \in UntaggedChipPaths :
       LET markup == site[p].markup
           post == PostOf(p)
           i == IndexOf(p)
       IN /\ DOMAIN markup =
                {"component", "h1", "byline", "chips", "html", "nav"}
          /\ markup.chips = <<>>
          /\ markup.h1 = <<post.frontmatter.title>>
          /\ markup.byline = [date |-> formatDate(post.frontmatter.date),
                              separator |-> <<32, 8226, 32>>,
                              minutes |-> post.timeToRead]
          /\ markup.html = post.html
          /\ markup.nav.prev # <<>> <=> \E j \in 1..Len(store) : Precedes(i, j)
          /\ markup.nav.next # <<>> <=> \E j \in 1..Len(store) : Precedes(j, i)

\* a post without tags between two tagged posts: its page shows no chip,
\* its title and both links
UntaggedPostPageWitness ==
    \E p \in UntaggedChipPaths :
       /\ Len(store) = 3
       /\ IndexOf(p) = 2
       /\ site[p].markup.chips = <<>>
       /\ site[p].markup.h1 = <<"B">>
       /\ Len(site[p].markup.nav.prev) = 1
       /\ Len(site[p].markup.nav.next) = 1
       /\ \E q \in DOMAIN site : site[q].template = "BlogPostTemplate"
                                  /\ Len(site[q].markup.chips) = 2

-----------------------------------------------------------------------------
(* Properties of the tag page beyond the query limit *)

\* a content store of n posts that all carry the tag, published on the
\* first days of the months of one year in turn
Archive(n, tag) ==
    [i \in 1..n |->
        [fields |-> [slug |-> "/post-" \o ToString(i) \o "/"],
         excerpt |-> "excerpt",
         html |-> "<p>body</p>",
         timeToRead |-> 1,
         frontmatter |-> [title |-> "Post " \o ToString(i),
                          date |-> [year |-> 2019,
                                    month |-> ((i - 1) % 12) + 1,
                                    day |-> 1],
                          tags |-> <<tag>>]]]

\* the tag page over a content store of one post more than the query
\* returns
LongTagPage ==
    Tags([tag |-> <<"x">>], TagsQuery(Archive(QueryLimit + 1, <<"x">>), <<"x">>))

\* C22: on a tag page the count of the header is the number of list items
\* below it, for any number of matching posts: on every rendered tag page,
\* and on the tag page of a tag that more posts carry than the query limit.
TagHeaderCountsItems ==
    /\ \A p \in TagPaths : site[p].markup.h1.count = Len(Items(p))
    /\ LongTagPage.h1.count = Len(LongTagPage.main)

-----------------------------------------------------------------------------
(* Properties of the blog index *)

\* the places of the rendered blog index that show the post
IndexPlaces(i) ==
    {k \in 1..Len(Items("/")) : Items("/")[k].key = store[i].fields.slug}

\* C23: the rendered blog index lists every post of the content store
\* exactly once, whether or not the post has tags, a title or a description:
\* it has as many items as the store has posts and each post has one item.
BlogIndexComplete ==
    "/" \in DOMAIN site =>
       /\ Len(Items("/")) = Len(store)
       /\ \A i \in 1..Len(store) : Cardinality(IndexPlaces(i)) = 1

\* three posts on the index: one with no optional key, one with a title
\* only, one with title, description and tags
BlogIndexCompleteWitness ==
    /\ "/" \in DOMAIN site
    /\ Len(store) = 3
    /\ DOMAIN store[1].frontmatter = {"date"}
    /\ DOMAIN store[2].frontmatter = {"date", "title"}
    /\ DOMAIN store[3].frontmatter = {"date", "title", "description", "tags"}
    /\ \A i \in 1..3 : Cardinality(IndexPlaces(i)) = 1

\* the posts of the content store without a tags field
Untagged == {i \in 1..Len(store) : "tags" \notin DOMAIN store[i].frontmatter}

\* C24: a post without tags is listed on no rendered tag page and adds no
\* entry and no count to the rendered tags index (each entry is a tag some
\* post carries and counts the carriers of its tag), while the rendered
\* blog index lists it and, once every page has rendered, it has its post
\* page and its neighbours in the global order link to it.
UntaggedPostPlaces ==
    \A i \in Untagged :
       LET slug == store[i].fields.slug
       IN /\ \A p \in TagPaths : \A k \in 1..Len(Items(p)) :
                Items(p)[k].key # slug
          /\ \A k \in 1..Len(Entries) :
                /\ Carriers(Entries[k].tag) # {}
                /\ i \notin Carriers(Entries[k].tag)
                /\ Entries[k].count = Cardinality(Carriers(Entries[k].tag))
          /\ "/" \in DOMAIN site =>
                \E k \in 1..Len(Items("/")) : Items("/")[k].key = slug
          /\ AllPostsRendered =>
                /\ slug \in PostPaths
                /\ \A j \in 1..Len(store) :
                      /\ Follows(i, j) =>
                            /\ Len(Nav(store[j].fields.slug).prev) = 1
                            /\ Nav(store[j].fields.slug).prev[1].to = slug
                      /\ Follows(j, i) =>
                            /\ Len(Nav(store[j].fields.slug).next) = 1
                            /\ Nav(store[j].fields.slug).next[1].to = slug

\* every page has rendered for an untagged post B between the posts A and C,
\* both tagged x: the page of x lists C and A, the tags index counts two,
\* the blog index lists all three, A links forward and C links back to B
UntaggedPostPlacesWitness ==
    /\ AllPostsRendered
    /\ Len(store) = 3
    /\ Untagged = {2}
    /\ Carriers(<<"x">>) = {1, 3}
    /\ \E p \in TagPaths :
          [k \in 1..Len(Items(p)) |-> Items(p)[k].key] = <<"/c/", "/a/">>
    /\ [k \in 1..Len(Entries) |-> Entries[k].count] = <<2>>
    /\ Len(Items("/")) = 3
    /\ Nav("/a/").next[1].to = "/b/"
    /\ Nav("/c/").prev[1].to = "/b/"

\* the nodes the rendered blog index received
IndexNodes ==
    IF "/" \in DOMAIN site
    THEN [k \in 1..Len(site["/"].data.allMarkdownRemark.edges) |->
             site["/"].data.allMarkdownRemark.edges[k].node]
    ELSE <<>>

\* C25: for every post the blog index received, the summary the index
\* renders inline and the summary PostListItem renders are the same: title
\* or slug, link target, date and reading-time byline, description or
\* excerpt.
ListItemVariantsAgree ==
    \A k \in 1..Len(IndexNodes) :
       InlineListItem(IndexNodes[k]) = PostListItem(IndexNodes[k])

\* the two summaries agree in everything but the text between the date and
\* the reading time
ListItemVariantsAgreeButSeparator ==
    \A k \in 1..Len(IndexNodes) :
       LET inline == InlineListItem(IndexNodes[k])
           item == PostListItem(IndexNodes[k])
       IN /\ [inline EXCEPT !.small.separator = <<>>]
                = [item EXCEPT !.small.separator = <<>>]
          /\ inline.small.separator = <<32, 8226, 32>>
          /\ item.small.separator = <<32, 226, 8364, 162, 32>>
====
